---------------------------- MODULE Spec2Model ----------------------------
(***************************************************************************)
(* A model of dynamic_bigint.h: a reference-counted sign-magnitude big     *)
(* integer.  A value is a record [limbs, is_negative]; limbs is the        *)
(* little-endian limb array limbs[0 .. limb_count-1] as a sequence, so     *)
(* Len(limbs) is limb_count.  A heap object adds ref_count.                *)
(*                                                                         *)
(* Widths.  TLC's integers are 32 bits wide, so the machine widths are     *)
(* scaled down together: a limb has DB_LIMB_BITS bits (32 in the source),  *)
(* int32_t/uint32_t are one limb wide, int64_t/uint64_t and db_dlimb_t two *)
(* limbs wide, and a double keeps DBL_MANT_DIG = 53/32 limbs of mantissa.  *)
(* Every relation the code relies on is kept: |int32| fits one limb,       *)
(* |int64| fits two, a double holds more than one limb and less than two.  *)
(***************************************************************************)
EXTENDS Integers, Sequences, FiniteSets, TLC

VARIABLES
    heap,       \* object id -> [ref_count, limbs, is_negative, freed]
    handles,    \* the callers' db_bigint variables: object id, or 0 for NULL
    retains,    \* object id -> db_retain calls made on it
    releases,   \* object id -> db_release calls made on it
    last,       \* the last call of the heap machine: op, operands, result
    pc,         \* "call" before the call of a function, "done" after its return
    op,         \* the function called
    arg_a,      \* first operand
    arg_b,      \* second operand (a value, a bit count, or what *result held)
    arg_c,      \* third operand
    arg_base,   \* the base of a string conversion
    arg_s,      \* the string handed to db_from_string
    res         \* what the call returned

vars == <<heap, handles, retains, releases, last,
          pc, op, arg_a, arg_b, arg_c, arg_base, arg_s, res>>


(***************************************************************************)
(* Bounds of the model.                                                    *)
(***************************************************************************)
DB_LIMB_BITS == 5        \* bits per limb in the model (scaled; see above)
MaxCalls     == 3        \* value-returning calls in one run of the heap machine
MaxRetains   == 1        \* db_retain calls in one run of the heap machine
MaxLimbs     == 2        \* longest operand the heap machine hands to an operation
MaxDigits    == 3        \* longest digit string handed to db_from_string

(***************************************************************************)
(* Machine types                                                           *)
(***************************************************************************)
LimbBase    == 2 ^ DB_LIMB_BITS               \* 1 << DB_LIMB_BITS
DB_LIMB_MAX == LimbBase - 1
DLimbBase   == LimbBase * LimbBase            \* range of db_dlimb_t
INT32_MAX   == 2 ^ (DB_LIMB_BITS - 1) - 1
INT32_MIN   == 0 - 2 ^ (DB_LIMB_BITS - 1)
UINT32_MAX  == LimbBase - 1
INT64_MAX   == 2 ^ (2 * DB_LIMB_BITS - 1) - 1
INT64_MIN   == 0 - 2 ^ (2 * DB_LIMB_BITS - 1)
UINT64_MAX  == DLimbBase - 1
DBL_MANT_DIG == (53 * DB_LIMB_BITS) \div 32

NULL == [null |-> TRUE]
IsNull(v) == "null" \in DOMAIN v

\* the call never returns (a loop of the code that does not terminate)
Hang == [hang |-> TRUE]
IsHang(v) == "hang" \in DOMAIN v

Abs(n) == IF n < 0 THEN 0 - n ELSE n
Max(m, n) == IF m > n THEN m ELSE n

(***************************************************************************)
(* The integer a limb sequence stands for, and back (used to state the     *)
(* claims and to build inputs; the code never computes these).             *)
(***************************************************************************)
RECURSIVE Mag(_)
Mag(limbs) ==
    IF limbs = <<>> THEN 0
    ELSE Head(limbs) + LimbBase * Mag(Tail(limbs))

RECURSIVE ToLimbs(_)
ToLimbs(n) ==
    IF n = 0 THEN <<>>
    ELSE <<n % LimbBase>> \o ToLimbs(n \div LimbBase)

IntOf(v) == IF v.is_negative THEN 0 - Mag(v.limbs) ELSE Mag(v.limbs)
ValOf(n) == [limbs |-> ToLimbs(Abs(n)), is_negative |-> n < 0]

Canonical(v) ==
    /\ (Len(v.limbs) = 0 \/ v.limbs[Len(v.limbs)] # 0)
    /\ (Len(v.limbs) = 0 => v.is_negative = FALSE)

(***************************************************************************)
(* Limb storage                                                            *)
(***************************************************************************)
\* db_alloc: limb_count 0, is_negative false (the zeroed buffer holds no limb yet)
db_alloc(initial_capacity) == [limbs |-> <<>>, is_negative |-> FALSE]

RECURSIVE TrimZeros(_)
TrimZeros(limbs) ==
    IF Len(limbs) > 0 /\ limbs[Len(limbs)] = 0
    THEN TrimZeros(SubSeq(limbs, 1, Len(limbs) - 1))
    ELSE limbs

db_normalize_keep_sign(big) ==
    [limbs |-> TrimZeros(big.limbs), is_negative |-> big.is_negative]

db_normalize(big) ==
    LET l == TrimZeros(big.limbs)
    IN  [limbs |-> l, is_negative |-> IF Len(l) = 0 THEN FALSE ELSE big.is_negative]

(***************************************************************************)
(* Creation                                                                *)
(***************************************************************************)
db_from_int32(value) ==
    [limbs |-> IF value # 0
               THEN <<(IF value < 0
                       THEN (IF value = INT32_MIN THEN INT32_MAX + 1 ELSE 0 - value)
                       ELSE value) % LimbBase>>
               ELSE <<>>,
     is_negative |-> value < 0]

db_from_int64_low_limb(value) ==
    LET uval == IF value < 0
                THEN (IF value = INT64_MIN THEN INT64_MAX + 1 ELSE 0 - value)
                ELSE value
    IN  db_normalize([limbs |-> <<uval % LimbBase>>, is_negative |-> value < 0])

db_from_int64(value) ==
    LET uval == IF value < 0
                THEN (IF value = INT64_MIN THEN INT64_MAX + 1 ELSE 0 - value)
                ELSE value
    IN  db_normalize([limbs |-> <<uval % LimbBase, (uval \div LimbBase) % LimbBase>>,
                      is_negative |-> value < 0])

db_from_uint32(value) ==
    [limbs |-> IF value # 0 THEN <<value % LimbBase>> ELSE <<>>,
     is_negative |-> FALSE]

db_from_uint64(value) ==
    db_normalize([limbs |-> <<value % LimbBase, (value \div LimbBase) % LimbBase>>,
                  is_negative |-> FALSE])

db_zero == db_from_int32(0)
db_one  == db_from_int32(1)

db_copy_magnitude(big) ==
    IF IsNull(big) THEN NULL
    ELSE [limbs |-> big.limbs, is_negative |-> FALSE]

db_copy(big) ==
    IF IsNull(big) THEN NULL
    ELSE [limbs |-> big.limbs, is_negative |-> big.is_negative]

(***************************************************************************)
(* Comparison                                                              *)
(***************************************************************************)
\* the loop "for (i = limb_count; i > 0; i--)" of both compare functions:
\* 1, -1 at the first differing limb from the top, 0 when none differs
RECURSIVE CmpLimbsFrom(_, _, _)
CmpLimbsFrom(al, bl, i) ==
    IF i = 0 THEN 0
    ELSE IF al[i] > bl[i] THEN 1
    ELSE IF al[i] < bl[i] THEN -1
    ELSE CmpLimbsFrom(al, bl, i - 1)

db_compare_magnitude(a, b) ==
    IF Len(a.limbs) > Len(b.limbs) THEN 1
    ELSE IF Len(a.limbs) < Len(b.limbs) THEN -1
    ELSE CmpLimbsFrom(a.limbs, b.limbs, Len(a.limbs))

db_compare_by_magnitude(a, b) ==
    IF IsNull(a) \/ IsNull(b) THEN 0
    ELSE IF a.is_negative # b.is_negative
         THEN (IF a.is_negative THEN -1 ELSE 1)
    ELSE db_compare_magnitude(a, b)

db_compare(a, b) ==
    IF IsNull(a) \/ IsNull(b) THEN 0
    ELSE IF a.is_negative # b.is_negative
         THEN (IF a.is_negative THEN -1 ELSE 1)
    ELSE IF Len(a.limbs) # Len(b.limbs)
         THEN LET mag_cmp == IF Len(a.limbs) > Len(b.limbs) THEN 1 ELSE -1
              IN  IF a.is_negative THEN 0 - mag_cmp ELSE mag_cmp
    ELSE LET c == CmpLimbsFrom(a.limbs, b.limbs, Len(a.limbs))
         IN  IF a.is_negative THEN 0 - c ELSE c

db_equal(a, b)         == db_compare(a, b) = 0
db_less(a, b)          == db_compare(a, b) < 0
db_less_equal(a, b)    == db_compare(a, b) <= 0
db_greater_equal(a, b) == db_compare(a, b) >= 0

db_is_zero(big)     == ~IsNull(big) /\ Len(big.limbs) = 0
db_is_negative(big) == ~IsNull(big) /\ big.is_negative /\ Len(big.limbs) > 0
db_is_positive(big) == ~IsNull(big) /\ ~big.is_negative /\ Len(big.limbs) > 0

(***************************************************************************)
(* Conversion to fixed-width integers.  result is what *result holds       *)
(* before the call; the call returns [ret, result]: the boolean returned   *)
(* and what *result holds afterwards.  val is the unsigned magnitude.      *)
(***************************************************************************)
db_to_int32_reject_min(big, result) ==
    IF IsNull(big) THEN [ret |-> FALSE, result |-> result]
    ELSE IF Len(big.limbs) = 0 THEN [ret |-> TRUE, result |-> 0]
    ELSE IF Len(big.limbs) > 1 THEN [ret |-> FALSE, result |-> result]
    ELSE LET val == big.limbs[1]
         IN  IF val > INT32_MAX THEN [ret |-> FALSE, result |-> result]
             ELSE [ret |-> TRUE,
                   result |-> IF big.is_negative THEN 0 - val ELSE val]

db_to_int32(big, result) ==
    IF IsNull(big) THEN [ret |-> FALSE, result |-> result]
    ELSE IF Len(big.limbs) = 0 THEN [ret |-> TRUE, result |-> 0]
    ELSE IF Len(big.limbs) > 1 THEN [ret |-> FALSE, result |-> result]
    ELSE LET val == big.limbs[1]
         IN  IF big.is_negative
             THEN IF val > INT32_MAX + 1 THEN [ret |-> FALSE, result |-> result]
                  ELSE IF val = INT32_MAX + 1
                       THEN [ret |-> TRUE, result |-> INT32_MIN]
                  ELSE [ret |-> TRUE, result |-> 0 - val]
             ELSE IF val > INT32_MAX THEN [ret |-> FALSE, result |-> result]
                  ELSE [ret |-> TRUE, result |-> val]

db_to_int64(big, result) ==
    IF IsNull(big) THEN [ret |-> FALSE, result |-> result]
    ELSE IF Len(big.limbs) = 0 THEN [ret |-> TRUE, result |-> 0]
    ELSE IF Len(big.limbs) > 2 THEN [ret |-> FALSE, result |-> result]
    ELSE LET val == IF Len(big.limbs) = 2
                    THEN big.limbs[1] + big.limbs[2] * LimbBase
                    ELSE big.limbs[1]
         IN  IF big.is_negative
             THEN IF val > INT64_MAX + 1 THEN [ret |-> FALSE, result |-> result]
                  ELSE IF val = INT64_MAX + 1
                       THEN [ret |-> TRUE, result |-> INT64_MIN]
                  ELSE [ret |-> TRUE, result |-> 0 - val]
             ELSE IF val > INT64_MAX THEN [ret |-> FALSE, result |-> result]
                  ELSE [ret |-> TRUE, result |-> val]


(***************************************************************************)
(* double: every double the library forms is integer valued, so a double   *)
(* is modelled by that integer, rounded to DBL_MANT_DIG significant bits   *)
(* (round to nearest, ties to even) after each operation that can round.   *)
(***************************************************************************)
RECURSIVE BitLen(_)
BitLen(n) == IF n = 0 THEN 0 ELSE 1 + BitLen(n \div 2)

RoundD(x) ==
    LET m == Abs(x)
        e == BitLen(m) - DBL_MANT_DIG
    IN  IF e <= 0 THEN x
        ELSE LET ulp  == 2 ^ e
                 q    == m \div ulp
                 r    == m % ulp
                 half == ulp \div 2
                 up   == r > half \/ (r = half /\ q % 2 = 1)
                 rm   == (IF up THEN q + 1 ELSE q) * ulp
             IN  IF x < 0 THEN 0 - rm ELSE rm

\* the loop of db_to_double: result += limbs[i] * base; base *= 2^DB_LIMB_BITS
RECURSIVE ToDoubleLoop(_, _, _, _)
ToDoubleLoop(limbs, i, result, base) ==
    IF i > Len(limbs) THEN result
    ELSE ToDoubleLoop(limbs, i + 1, RoundD(result + limbs[i] * base), base * LimbBase)

db_to_double(big) ==
    IF IsNull(big) \/ Len(big.limbs) = 0 THEN 0
    ELSE LET result == ToDoubleLoop(big.limbs, 1, 0, 1)
         IN  IF big.is_negative THEN 0 - result ELSE result

\* fmod(x, y), y # 0: exact, with the sign of x
fmod(x, y) ==
    LET r == Abs(x) % Abs(y)
    IN  IF x < 0 THEN 0 - r ELSE r

\* a double beyond the range of int64_t; (int64_t) maps all of them alike
HUGE_VAL == 2 * (INT64_MAX + 1)

\* x * y in double
DMul(x, y) ==
    IF x = 0 \/ y = 0 THEN 0
    ELSE IF Abs(x) > HUGE_VAL \div Abs(y)
    THEN IF (x < 0) # (y < 0) THEN 0 - HUGE_VAL ELSE HUGE_VAL
    ELSE RoundD(x * y)

(***************************************************************************)
(* (int64_t)d for a double d outside the range of int64_t is undefined     *)
(* behaviour.  The builds differ: cvttsd2si gives INT64_MIN for every      *)
(* out-of-range operand ("indefinite"), fcvtzs clamps ("saturate").        *)
(***************************************************************************)
CastBuilds == {"indefinite", "saturate"}

CastInt64(d, ub) ==
    IF d >= INT64_MIN /\ d <= INT64_MAX THEN d
    ELSE IF ub = "saturate" /\ d > 0 THEN INT64_MAX
    ELSE INT64_MIN

(***************************************************************************)
(* Arithmetic                                                              *)
(***************************************************************************)
LimbAt(limbs, i) == IF i <= Len(limbs) THEN limbs[i] ELSE 0

\* same-sign loop of db_add; returns the limbs written and the final carry
RECURSIVE AddLoop(_, _, _, _, _, _)
AddLoop(al, bl, n, i, carry, acc) ==
    IF i > n THEN [limbs |-> acc, carry |-> carry]
    ELSE LET sum == (carry + LimbAt(al, i) + LimbAt(bl, i)) % DLimbBase
         IN  AddLoop(al, bl, n, i + 1, sum \div LimbBase,
                     Append(acc, sum % LimbBase))

\* one limb of the differing-sign loop of db_add.  diff is a db_dlimb_t, an
\* unsigned type: the subtraction wraps and "diff < 0" is tested on the
\* wrapped value.
SubLimb(a_limb, b_limb, borrow) ==
    LET diff == (a_limb - b_limb - borrow) % DLimbBase
    IN  IF diff < 0
        THEN [limb |-> (diff + LimbBase) % LimbBase, borrow |-> 1]
        ELSE [limb |-> diff % LimbBase, borrow |-> 0]

RECURSIVE SubLoop(_, _, _, _, _, _)
SubLoop(ll, sl, n, i, borrow, acc) ==
    IF i > n THEN acc
    ELSE LET s == SubLimb(LimbAt(ll, i), LimbAt(sl, i), borrow)
         IN  SubLoop(ll, sl, n, i + 1, s.borrow, Append(acc, s.limb))

db_add(a, b) ==
    IF IsNull(a) \/ IsNull(b) THEN NULL
    ELSE IF a.is_negative = b.is_negative
    THEN LET max_limbs == Max(Len(a.limbs), Len(b.limbs))
             r == AddLoop(a.limbs, b.limbs, max_limbs, 1, 0, <<>>)
         IN  db_normalize([limbs |-> IF r.carry # 0
                                     THEN Append(r.limbs, r.carry % LimbBase)
                                     ELSE r.limbs,
                           is_negative |-> a.is_negative])
    ELSE LET cmp     == db_compare_magnitude(a, b)
             larger  == IF cmp >= 0 THEN a ELSE b
             smaller == IF cmp >= 0 THEN b ELSE a
             result_negative == IF cmp >= 0 THEN a.is_negative ELSE b.is_negative
         IN  db_normalize([limbs |-> SubLoop(larger.limbs, smaller.limbs,
                                             Len(larger.limbs), 1, 0, <<>>),
                           is_negative |-> result_negative])

db_negate(a) ==
    IF IsNull(a) THEN NULL
    ELSE LET result == db_copy(a)
         IN  IF Len(result.limbs) > 0
             THEN [result EXCEPT !.is_negative = ~result.is_negative]
             ELSE result

db_abs(a) ==
    IF IsNull(a) THEN NULL
    ELSE IF ~a.is_negative THEN db_copy(a)
    ELSE LET result == db_copy(a)
         IN  IF Len(result.limbs) > 0
             THEN [result EXCEPT !.is_negative = FALSE]
             ELSE result

db_add_int32(a, b) ==
    IF IsNull(a) THEN NULL ELSE db_add(a, db_from_int32(b))

db_subtract(a, b) ==
    IF IsNull(a) \/ IsNull(b) THEN NULL
    ELSE db_add(a, db_negate(b))

db_subtract_int32(a, b) ==
    IF IsNull(a) THEN NULL ELSE db_subtract(a, db_from_int32(b))

\* db_multiply goes through double and back through (int64_t)
db_multiply(a, b, ub) ==
    IF IsNull(a) \/ IsNull(b) THEN NULL
    ELSE LET a_val  == db_to_double(a)
             b_val  == db_to_double(b)
             result == DMul(a_val, b_val)
         IN  db_from_int64(CastInt64(result, ub))

db_multiply_int32(a, b, ub) ==
    IF IsNull(a) THEN NULL ELSE db_multiply(a, db_from_int32(b), ub)

\* the while loop of db_divide.  The loop is deterministic in the remainder,
\* so a remainder seen before means the loop never exits.
RECURSIVE DivideLoop(_, _, _, _)
DivideLoop(rem, quo, divisor, seen) ==
    IF ~db_greater_equal(rem, divisor) THEN quo
    ELSE IF rem \in seen THEN Hang
    ELSE LET temp_remainder == db_subtract(rem, divisor)
             temp_quotient  == db_add(quo, db_one)
         IN  IF IsNull(temp_remainder) \/ IsNull(temp_quotient) THEN NULL
             ELSE DivideLoop(temp_remainder, temp_quotient, divisor,
                             seen \cup {rem})

\* the sign of the quotient: negative if the operands' signs differ
DivideSign(quotient, result_negative) ==
    IF IsHang(quotient) \/ IsNull(quotient) THEN quotient
    ELSE IF result_negative /\ Len(quotient.limbs) > 0
         THEN [quotient EXCEPT !.is_negative = TRUE]
         ELSE quotient

\* db_divide without the test for a zero divisor
db_divide_unchecked(a, b) ==
    IF IsNull(a) \/ IsNull(b) THEN NULL
    ELSE IF db_is_zero(a) THEN db_zero
    ELSE IF db_equal(a, b) THEN db_one
    ELSE IF db_less(db_abs(a), db_abs(b)) THEN db_zero
    ELSE DivideSign(DivideLoop(db_copy(db_abs(a)), db_zero, db_abs(b), {}),
                    a.is_negative # b.is_negative)

db_divide(a, b) ==
    IF IsNull(a) \/ IsNull(b) THEN NULL
    ELSE IF db_is_zero(b) THEN NULL
    ELSE IF db_is_zero(a) THEN db_zero
    ELSE IF db_equal(a, b) THEN db_one
    ELSE IF db_less(db_abs(a), db_abs(b)) THEN db_zero
    ELSE DivideSign(DivideLoop(db_copy(db_abs(a)), db_zero, db_abs(b), {}),
                    a.is_negative # b.is_negative)

\* db_mod goes through double, fmod and back through (int64_t)
db_mod(a, b, ub) ==
    IF IsNull(a) \/ IsNull(b) THEN NULL
    ELSE IF db_is_zero(b) THEN NULL
    ELSE LET a_val  == db_to_double(a)
             b_val  == db_to_double(b)
             result == fmod(a_val, b_val)
         IN  db_from_int64(CastInt64(result, ub))

(***************************************************************************)
(* Strings: a C string is [chars |-> the characters before the '\0'], so  *)
(* that a char* is either such a record or NULL.                           *)
(***************************************************************************)
CStr(chars) == [chars |-> chars]

DigitChars == <<"0", "1", "2", "3", "4", "5", "6", "7", "8", "9",
                "a", "b", "c", "d", "e", "f", "g", "h", "i", "j", "k", "l", "m",
                "n", "o", "p", "q", "r", "s", "t", "u", "v", "w", "x", "y", "z">>
UpperChars == <<"0", "1", "2", "3", "4", "5", "6", "7", "8", "9",
                "A", "B", "C", "D", "E", "F", "G", "H", "I", "J", "K", "L", "M",
                "N", "O", "P", "Q", "R", "S", "T", "U", "V", "W", "X", "Y", "Z">>

\* the digit value the parser gives a character; -1 for "else break"
DigitVal(c) ==
    IF \E i \in 1..36 : DigitChars[i] = c
    THEN (CHOOSE i \in 1..36 : DigitChars[i] = c) - 1
    ELSE IF \E i \in 11..36 : UpperChars[i] = c
    THEN (CHOOSE i \in 11..36 : UpperChars[i] = c) - 1
    ELSE -1

\* the digits of a natural number in a base, most significant first
RECURSIVE DigitsOf(_, _)
DigitsOf(n, base) ==
    IF n < base THEN <<DigitChars[n + 1]>>
    ELSE Append(DigitsOf(n \div base, base), DigitChars[(n % base) + 1])

\* snprintf(buffer, size, "%.0f", val): the decimal text of the integer
\* valued double, cut to size - 1 characters
Snprintf0f(size, val) ==
    LET text == IF val < 0 THEN <<"-">> \o DigitsOf(0 - val, 10)
                ELSE DigitsOf(val, 10)
    IN  CStr(IF Len(text) > size - 1 THEN SubSeq(text, 1, size - 1) ELSE text)

db_to_string(big, base) ==
    IF IsNull(big) \/ base < 2 \/ base > 36 THEN NULL
    ELSE IF Len(big.limbs) = 0 THEN CStr(<<"0">>)
    ELSE IF base = 10
         THEN LET max_digits == Len(big.limbs) * 10 + 2
              IN  Snprintf0f(max_digits, db_to_double(big))
    ELSE NULL

\* while (*str == ' ' || *str == '\t' || *str == '\n' || *str == '\r') str++
RECURSIVE SkipSpace(_)
SkipSpace(str) ==
    IF str # <<>> /\ Head(str) \in {" ", "\t", "\n", "\r"} THEN SkipSpace(Tail(str)) ELSE str

\* while (*str == '0') str++
RECURSIVE SkipZeros(_)
SkipZeros(str) ==
    IF str # <<>> /\ Head(str) = "0" THEN SkipZeros(Tail(str)) ELSE str

\* the counting loop of db_from_string: the length of the run of valid digits
RECURSIVE CountDigits(_, _)
CountDigits(p, base) ==
    IF p = <<>> THEN 0
    ELSE LET digit_val == DigitVal(Head(p))
         IN  IF digit_val < 0 \/ digit_val >= base THEN 0
             ELSE 1 + CountDigits(Tail(p), base)

\* the Horner loop of db_from_string over digit_count characters
RECURSIVE HornerLoop(_, _, _, _, _, _)
HornerLoop(digits, i, count, base_big, acc, ub) ==
    IF i > count THEN acc
    ELSE LET digit_val == DigitVal(digits[i])
             temp      == db_multiply(acc, base_big, ub)
             digit_big == db_from_int32(digit_val)
         IN  HornerLoop(digits, i + 1, count, base_big,
                        db_add(temp, digit_big), ub)

db_from_string(str0, base, ub) ==
    IF IsNull(str0) \/ base < 2 \/ base > 36 THEN NULL
    ELSE LET str1 == SkipSpace(str0.chars)
         IN  IF str1 = <<>> THEN NULL
             ELSE LET is_negative == Head(str1) = "-"
                      str2 == IF Head(str1) \in {"-", "+"} THEN Tail(str1) ELSE str1
                      str  == SkipZeros(str2)
                  IN  IF str = <<>> THEN db_zero
                      ELSE LET digit_count == CountDigits(str, base)
                           IN  IF digit_count = 0 THEN NULL
                               ELSE LET result == HornerLoop(str, 1, digit_count,
                                                     db_from_int32(base),
                                                     db_alloc((digit_count + 7) \div 8 + 1),
                                                     ub)
                                    IN  IF is_negative /\ Len(result.limbs) > 0
                                        THEN [result EXCEPT !.is_negative = TRUE]
                                        ELSE result


(***************************************************************************)
(* Bitwise operations and shifts                                           *)
(***************************************************************************)
\* x & y, x | y, x ^ y on two limbs, bit by bit over DB_LIMB_BITS bits
RECURSIVE BitOp(_, _, _, _)
BitOp(f, x, y, n) ==
    IF n = 0 THEN 0
    ELSE LET bx == x % 2
             by == y % 2
             b  == CASE f = "and" -> (IF bx = 1 /\ by = 1 THEN 1 ELSE 0)
                    [] f = "or"  -> (IF bx = 1 \/ by = 1 THEN 1 ELSE 0)
                    [] f = "xor" -> (IF bx # by THEN 1 ELSE 0)
         IN  b + 2 * BitOp(f, x \div 2, y \div 2, n - 1)

LimbwiseOp(f, a, b) ==
    LET max_limbs == Max(Len(a.limbs), Len(b.limbs))
    IN  db_normalize([limbs |-> [i \in 1..max_limbs |->
                                    BitOp(f, LimbAt(a.limbs, i), LimbAt(b.limbs, i),
                                          DB_LIMB_BITS)],
                      is_negative |-> FALSE])

db_and(a, b) == IF IsNull(a) \/ IsNull(b) THEN NULL ELSE LimbwiseOp("and", a, b)
db_or(a, b)  == IF IsNull(a) \/ IsNull(b) THEN NULL ELSE LimbwiseOp("or", a, b)
db_xor(a, b) == IF IsNull(a) \/ IsNull(b) THEN NULL ELSE LimbwiseOp("xor", a, b)

db_not(a) ==
    IF IsNull(a) THEN NULL
    ELSE db_normalize([limbs |-> [i \in 1..(Len(a.limbs) + 1) |->
                                     IF i <= Len(a.limbs)
                                     THEN DB_LIMB_MAX - a.limbs[i]
                                     ELSE DB_LIMB_MAX],
                       is_negative |-> FALSE])

db_shift_left_drop_carry(a, bits) ==
    IF IsNull(a) \/ bits = 0 THEN db_copy(a)
    ELSE LET limb_shift == bits \div DB_LIMB_BITS
             bit_shift  == bits % DB_LIMB_BITS
             n          == Len(a.limbs)
             new_limb_count == n + limb_shift + (IF bit_shift > 0 THEN 1 ELSE 0)
             \* carry out of source limb i (0 below the first limb)
             carry(i) == IF i < 1 THEN 0
                         ELSE a.limbs[i] \div (2 ^ (DB_LIMB_BITS - bit_shift))
             limbs == [k \in 1..new_limb_count |->
                          LET i == k - limb_shift
                          IN  IF i < 1 THEN 0
                              ELSE IF bit_shift = 0
                                   THEN (IF i <= n THEN a.limbs[i] ELSE 0)
                              ELSE IF i <= n
                                   THEN BitOp("or",
                                              (a.limbs[i] * (2 ^ bit_shift)) % LimbBase,
                                              carry(i - 1), DB_LIMB_BITS)
                              ELSE IF i = n + 1 THEN 0
                              ELSE 0]
         IN  db_normalize([limbs |-> limbs, is_negative |-> a.is_negative])

db_shift_left(a, bits) ==
    IF IsNull(a) \/ bits = 0 THEN db_copy(a)
    ELSE LET limb_shift == bits \div DB_LIMB_BITS
             bit_shift  == bits % DB_LIMB_BITS
             n          == Len(a.limbs)
             new_limb_count == n + limb_shift + (IF bit_shift > 0 THEN 1 ELSE 0)
             \* carry out of source limb i (0 below the first limb)
             carry(i) == IF i < 1 THEN 0
                         ELSE a.limbs[i] \div (2 ^ (DB_LIMB_BITS - bit_shift))
             limbs == [k \in 1..new_limb_count |->
                          LET i == k - limb_shift
                          IN  IF i < 1 THEN 0
                              ELSE IF bit_shift = 0
                                   THEN (IF i <= n THEN a.limbs[i] ELSE 0)
                              ELSE IF i <= n
                                   THEN BitOp("or",
                                              (a.limbs[i] * (2 ^ bit_shift)) % LimbBase,
                                              carry(i - 1), DB_LIMB_BITS)
                              ELSE IF i = n + 1 THEN carry(n)
                              ELSE 0]
         IN  db_normalize([limbs |-> limbs, is_negative |-> a.is_negative])

db_shift_right(a, bits) ==
    IF IsNull(a) \/ bits = 0 THEN db_copy(a)
    ELSE LET limb_shift == bits \div DB_LIMB_BITS
             bit_shift  == bits % DB_LIMB_BITS
             n          == Len(a.limbs)
         IN  IF limb_shift >= n THEN db_zero
             ELSE LET new_limb_count == n - limb_shift
                      limbs == [i \in 1..new_limb_count |->
                                   IF bit_shift = 0 THEN a.limbs[i + limb_shift]
                                   ELSE LET current == a.limbs[i + limb_shift]
                                            next == LimbAt(a.limbs, i + limb_shift + 1)
                                        IN  BitOp("or",
                                                  current \div (2 ^ bit_shift),
                                                  (next * (2 ^ (DB_LIMB_BITS - bit_shift)))
                                                      % LimbBase,
                                                  DB_LIMB_BITS)]
                  IN  db_normalize([limbs |-> limbs, is_negative |-> a.is_negative])

db_bit_length(big) ==
    IF IsNull(big) \/ Len(big.limbs) = 0 THEN 0
    ELSE (Len(big.limbs) - 1) * DB_LIMB_BITS + BitLen(big.limbs[Len(big.limbs)])


(***************************************************************************)
(* Number theory.  A loop whose state repeats never exits: the operator    *)
(* then yields Hang, as it does when a call it makes never returns.        *)
(***************************************************************************)
RECURSIVE GcdLoop(_, _, _, _)
GcdLoop(ra, rb, ub, seen) ==
    IF db_is_zero(rb) THEN ra
    ELSE IF <<ra, rb>> \in seen THEN Hang
    ELSE LET remainder == db_mod(ra, rb, ub)
         IN  IF IsNull(remainder) THEN NULL
             ELSE GcdLoop(rb, remainder, ub, seen \cup {<<ra, rb>>})

db_gcd(a, b, ub) ==
    IF IsNull(a) \/ IsNull(b) THEN NULL
    ELSE LET abs_a == db_abs(a)
             abs_b == db_abs(b)
         IN  IF db_is_zero(abs_a) THEN abs_b
             ELSE IF db_is_zero(abs_b) THEN abs_a
             ELSE GcdLoop(abs_a, abs_b, ub, {})

db_lcm(a, b, ub) ==
    IF IsNull(a) \/ IsNull(b) THEN NULL
    ELSE IF db_is_zero(a) \/ db_is_zero(b) THEN db_zero
    ELSE LET gcd == db_gcd(a, b, ub)
         IN  IF IsNull(gcd) \/ IsHang(gcd) THEN gcd
             ELSE LET product     == db_multiply(a, b, ub)
                      abs_product == db_abs(product)
                  IN  db_divide(abs_product, gcd)

RECURSIVE SqrtLoop(_, _, _, _)
\* the second half of an iteration of Newton's method: x_new is known
SqrtNext(n0, xi, k2, iterations, x_new) ==
    IF IsHang(x_new) THEN Hang
    ELSE IF IsNull(x_new) THEN xi
    ELSE IF db_greater_equal(x_new, xi) THEN xi
    ELSE SqrtLoop(n0, x_new, k2, iterations + 1)

\* the first half: quotient = n / x is known
SqrtStep(n0, xi, k2, iterations, quotient) ==
    IF IsHang(quotient) THEN Hang
    ELSE IF IsNull(quotient) THEN xi
    ELSE SqrtNext(n0, xi, k2, iterations, db_divide(db_add(xi, quotient), k2))

SqrtLoop(n0, xi, k2, iterations) ==
    IF iterations >= 100 THEN xi
    ELSE SqrtStep(n0, xi, k2, iterations, db_divide(n0, xi))

\* db_sqrt after the initial guess x = n / 2
SqrtStart(n, two, x) ==
    IF IsHang(x) \/ IsNull(x) THEN x
    ELSE SqrtLoop(n, x, two, 0)

db_sqrt(n) ==
    IF IsNull(n) THEN NULL
    ELSE IF db_is_negative(n) THEN NULL
    ELSE IF db_is_zero(n) THEN db_zero
    ELSE IF db_equal(n, db_one) THEN db_one
    ELSE SqrtStart(n, db_from_int32(2), db_divide(n, db_from_int32(2)))

RECURSIVE FactorialLoop(_, _, _, _)
FactorialLoop(i, n, result, ub) ==
    IF i > n THEN result
    ELSE FactorialLoop(i + 1, n, db_multiply(result, db_from_uint32(i), ub), ub)

db_factorial(n, ub) ==
    IF n <= 1 THEN db_one ELSE FactorialLoop(2, n, db_one, ub)

RECURSIVE ModPowLoop(_, _, _, _, _, _)
\* the end of an iteration of db_mod_pow: the three new values are known
ModPowStep(result, base_mod, exp_copy, mod, ub, seen, result2, base_mod2, new_exp) ==
    IF IsHang(new_exp) THEN Hang
    ELSE IF IsNull(result2) \/ IsNull(base_mod2) \/ IsNull(new_exp)
         THEN result2
    ELSE ModPowLoop(result2, base_mod2, new_exp, mod, ub,
                    seen \cup {<<result, base_mod, exp_copy>>})

ModPowLoop(result, base_mod, exp_copy, mod, ub, seen) ==
    IF db_is_zero(exp_copy) THEN result
    ELSE IF <<result, base_mod, exp_copy>> \in seen THEN Hang
    ELSE ModPowStep(result, base_mod, exp_copy, mod, ub, seen,
             IF LET remainder == db_mod(exp_copy, db_from_int32(2), ub)
                IN  ~IsNull(remainder) /\ ~db_is_zero(remainder)
             THEN db_mod(db_multiply(result, base_mod, ub), mod, ub)
             ELSE result,
             db_mod(db_multiply(base_mod, base_mod, ub), mod, ub),
             db_divide(exp_copy, db_from_int32(2)))

db_mod_pow(base, exp, mod, ub) ==
    IF IsNull(base) \/ IsNull(exp) \/ IsNull(mod) THEN NULL
    ELSE IF db_is_zero(mod) THEN NULL
    ELSE IF db_equal(mod, db_one) THEN db_zero
    ELSE IF db_is_zero(exp) THEN db_one
    ELSE IF db_is_zero(base) THEN db_zero
    ELSE ModPowLoop(db_one, db_mod(base, mod, ub), db_copy(exp), mod, ub, {})

\* the trial-division loop of db_is_prime; TRUE, FALSE as [ret |-> ...]
RECURSIVE IsPrimeLoop(_, _, _, _, _)
IsPrimeLoop(n0, i, limit, k2, ub) ==
    IF ~db_less_equal(i, limit) THEN [ret |-> TRUE]
    ELSE IF db_is_zero(db_mod(n0, i, ub)) THEN [ret |-> FALSE]
    ELSE IsPrimeLoop(n0, db_add(i, k2), limit, k2, ub)

\* db_is_prime for an odd n > 3: trial division up to sqrt_n
IsPrimeOdd(n, sqrt_n, ub) ==
    IF IsHang(sqrt_n) THEN Hang
    ELSE IsPrimeLoop(n, db_copy(db_from_int32(3)), sqrt_n, db_from_int32(2), ub)

db_is_prime(n, certainty, ub) ==
    IF IsNull(n) THEN [ret |-> FALSE]
    ELSE IF db_is_negative(n) THEN [ret |-> FALSE]
    ELSE IF db_less(n, db_from_int32(2)) THEN [ret |-> FALSE]
    ELSE IF db_equal(n, db_from_int32(2)) \/ db_equal(n, db_from_int32(3))
         THEN [ret |-> TRUE]
    ELSE IF db_is_zero(db_mod(n, db_from_int32(2), ub)) THEN [ret |-> FALSE]
    ELSE IsPrimeOdd(n, db_sqrt(n), ub)

RECURSIVE NextPrimeLoop(_, _, _, _)
\* one test of the loop of db_next_prime: p is db_is_prime(candidate)
NextPrimeStep(cand, k2, ub, seen, p) ==
    IF IsHang(p) THEN Hang
    ELSE IF p.ret THEN cand
    ELSE NextPrimeLoop(db_add(cand, k2), k2, ub, seen \cup {cand})

NextPrimeLoop(cand, k2, ub, seen) ==
    IF IsNull(cand) THEN cand
    ELSE IF cand \in seen THEN Hang
    ELSE NextPrimeStep(cand, k2, ub, seen, db_is_prime(cand, 10, ub))

db_next_prime(n, ub) ==
    IF IsNull(n) THEN NULL
    ELSE NextPrimeLoop(IF db_is_zero(db_mod(db_copy(n), db_from_int32(2), ub))
                       THEN db_add(db_copy(n), db_one)
                       ELSE db_copy(n),
                       db_from_int32(2), ub, {})

(***************************************************************************)
(* Allocation ledgers.  Every call of an allocating function (db_one,      *)
(* db_copy, db_from_int32, db_mod, db_add, ...) hands the caller one new   *)
(* object of ref_count 1 and db_release(&x) frees it.  A ledger counts, as *)
(* [ret |-> n], the objects a call allocated that are still live when it   *)
(* returns, the returned object excluded.                                  *)
(***************************************************************************)
\* the loop of db_mod_pow: an iteration allocates remainder, the argument
\* db_from_int32(2), temp and new_result (odd exponent), base_squared,
\* new_base, two and new_exp, and releases all of them or what they
\* replace, except the argument db_from_int32(2)
RECURSIVE ModPowLive(_, _, _)
ModPowLive(exp_copy, live, seen) ==
    IF db_is_zero(exp_copy) THEN [ret |-> live]
    ELSE IF exp_copy \in seen \/ IsHang(db_divide(exp_copy, db_from_int32(2)))
         THEN Hang
    ELSE ModPowLive(db_divide(exp_copy, db_from_int32(2)), live + 1,
                    seen \cup {exp_copy})

\* db_mod_pow: the db_one() compared with mod is never released; result,
\* base_mod and exp_copy are allocated before the loop, base_mod and
\* exp_copy released after it, and result is returned
db_mod_pow_live(base, exp, mod) ==
    IF IsNull(base) \/ IsNull(exp) \/ IsNull(mod) THEN [ret |-> 0]
    ELSE IF db_is_zero(mod) THEN [ret |-> 0]
    ELSE IF db_equal(mod, db_one) THEN [ret |-> 1]
    ELSE IF db_is_zero(exp) THEN [ret |-> 1]
    ELSE IF db_is_zero(base) THEN [ret |-> 1]
    ELSE LET loop == ModPowLive(db_copy(exp), 1 + 2, {})
         IN  IF IsHang(loop) THEN Hang ELSE [ret |-> loop.ret - 2]

\* db_next_prime: candidate is returned; two and remainder are allocated
\* and released; for an even n the db_one() added to candidate is never
\* released, new_candidate replaces candidate, which is released; the loop
\* allocates new_candidate and releases candidate
db_next_prime_live(n, ub) ==
    IF IsNull(n) THEN [ret |-> 0]
    ELSE IF IsHang(db_next_prime(n, ub)) THEN Hang
    ELSE [ret |-> 2
                  + (IF db_is_zero(db_mod(db_copy(n), db_from_int32(2), ub))
                     THEN 1 + 1 - 1 ELSE 0)
                  - 1 - 1]

\* the limbs db_random needs for a bit count
LimbsNeeded(bits) == (bits + DB_LIMB_BITS - 1) \div DB_LIMB_BITS

\* db_random with the limbs rand() filled in given as rnd
db_random(bits, rnd) ==
    IF bits = 0 THEN db_zero
    ELSE LET limbs_needed == LimbsNeeded(bits)
             high_bits    == bits % DB_LIMB_BITS
             limbs == [i \in 1..limbs_needed |->
                          IF i = limbs_needed /\ high_bits > 0
                          THEN rnd[i] % (2 ^ high_bits)
                          ELSE rnd[i]]
         IN  db_normalize([limbs |-> limbs, is_negative |-> FALSE])

\* allocation never fails in the model, so every attempt of the retry loop
\* computes the same: a null mod_result on the first is null on all 100
db_random_range(min, max, rnd, ub) ==
    IF IsNull(min) \/ IsNull(max) THEN NULL
    ELSE IF db_greater_equal(min, max) THEN NULL
    ELSE LET range      == db_subtract(max, min)
             range_bits == db_bit_length(range)
             random     == db_random(range_bits + 8, rnd)
             mod_result == db_mod(random, range, ub)
         IN  IF IsNull(mod_result) THEN NULL
             ELSE db_add(min, mod_result)

RECURSIVE ExtGcdLoop(_, _, _, _, _, _, _, _)
\* the end of an iteration of db_extended_gcd: the new r, s, t are known
ExtGcdNext(r, s, t, ub, seen, new_r, new_s, new_t) ==
    IF IsNull(new_r) \/ IsNull(new_s) \/ IsNull(new_t)
    THEN [g |-> r, x |-> s, y |-> t]
    ELSE ExtGcdLoop(r, new_r, s, new_s, t, new_t, ub, seen)

\* an iteration of db_extended_gcd once quotient = old_r / r is known
ExtGcdStep(old_r, r, old_s, s, old_t, t, ub, seen, quotient) ==
    IF IsHang(quotient) THEN Hang
    ELSE IF IsNull(quotient) THEN [g |-> old_r, x |-> old_s, y |-> old_t]
    ELSE ExtGcdNext(r, s, t, ub, seen \cup {<<old_r, r>>},
                    db_subtract(old_r, db_multiply(quotient, r, ub)),
                    db_subtract(old_s, db_multiply(quotient, s, ub)),
                    db_subtract(old_t, db_multiply(quotient, t, ub)))

ExtGcdLoop(old_r, r, old_s, s, old_t, t, ub, seen) ==
    IF db_is_zero(r) THEN [g |-> old_r, x |-> old_s, y |-> old_t]
    ELSE IF <<old_r, r>> \in seen THEN Hang
    ELSE ExtGcdStep(old_r, r, old_s, s, old_t, t, ub, seen, db_divide(old_r, r))

db_extended_gcd(a, b, ub) ==
    IF IsNull(a) \/ IsNull(b) THEN NULL
    ELSE ExtGcdLoop(db_abs(a), db_abs(b), db_one, db_zero, db_zero, db_one, ub, {})



(***************************************************************************)
(* The heap machine (Spec).  heap is the sequence of objects allocated so  *)
(* far, an object's id its index; handles is the sequence of the callers'  *)
(* db_bigint variables, each holding an object id or 0 (NULL).  Every      *)
(* pointer a call returns is stored in a new handle.                       *)
(***************************************************************************)
ValIn(hp, id) == [limbs |-> hp[id].limbs, is_negative |-> hp[id].is_negative]
Val(id) == ValIn(heap, id)

\* the objects some handle points to
Live == {handles[i] : i \in DOMAIN handles} \ {0}

\* db_alloc and the stores that fill the new object in
HeapAlloc(hp, val) ==
    Append(hp, [ref_count |-> 1, limbs |-> val.limbs,
                is_negative |-> val.is_negative, freed |-> FALSE])

\* big->ref_count++
HeapRetain(hp, id) ==
    [hp EXCEPT ![id].ref_count = @ + 1]

HeapReleaseEarly(hp, id) ==
    [hp EXCEPT ![id].ref_count = @ - 1,
               ![id].freed = (hp[id].ref_count - 1 <= 1)]

\* if (--b->ref_count == 0) { DB_FREE(b->limbs); DB_FREE(b); }
HeapRelease(hp, id) ==
    [hp EXCEPT ![id].ref_count = @ - 1,
               ![id].freed = (hp[id].ref_count - 1 = 0)]


\* A call that returns a pointer it got from db_alloc, holding val (the
\* caller stores it in a new handle); or NULL; or never returns.  No
\* operand is written.
ReturnShared(name, args, val) ==
    IF IsHang(val)
    THEN /\ last' = [op |-> name, args |-> args, ret |-> 0, handle |-> 0,
                    hung |-> TRUE]
         /\ UNCHANGED <<heap, handles, retains, releases>>
    ELSE IF IsNull(val)
    THEN /\ last' = [op |-> name, args |-> args, ret |-> 0, handle |-> 0,
                    hung |-> FALSE]
         /\ UNCHANGED <<heap, handles, retains, releases>>
    ELSE IF \E k \in 1..Len(args) : Val(args[k]) = val
    THEN LET id == args[CHOOSE k \in 1..Len(args) : Val(args[k]) = val]
         IN  /\ heap' = HeapRetain(heap, id)
             /\ handles' = Append(handles, id)
             /\ last' = [op |-> name, args |-> args, ret |-> id,
                        handle |-> Len(handles) + 1, hung |-> FALSE]
             /\ UNCHANGED <<retains, releases>>
    ELSE /\ heap' = HeapAlloc(heap, val)
         /\ handles' = Append(handles, Len(heap) + 1)
         /\ retains' = Append(retains, 0)
         /\ releases' = Append(releases, 0)
         /\ last' = [op |-> name, args |-> args, ret |-> Len(heap) + 1,
                    handle |-> Len(handles) + 1, hung |-> FALSE]

ReturnNew(name, args, val) ==
    IF IsHang(val)
    THEN /\ last' = [op |-> name, args |-> args, ret |-> 0, handle |-> 0,
                    hung |-> TRUE]
         /\ UNCHANGED <<heap, handles, retains, releases>>
    ELSE IF IsNull(val)
    THEN /\ last' = [op |-> name, args |-> args, ret |-> 0, handle |-> 0,
                    hung |-> FALSE]
         /\ UNCHANGED <<heap, handles, retains, releases>>
    ELSE /\ heap' = HeapAlloc(heap, val)
         /\ handles' = Append(handles, Len(heap) + 1)
         /\ retains' = Append(retains, 0)
         /\ releases' = Append(releases, 0)
         /\ last' = [op |-> name, args |-> args, ret |-> Len(heap) + 1,
                    handle |-> Len(handles) + 1, hung |-> FALSE]

CanCall == ~last.hung /\ Len(heap) < MaxCalls

Init ==
    /\ heap = <<>>
    /\ handles = <<>>
    /\ retains = <<>>
    /\ releases = <<>>
    /\ last = [op |-> "none", args |-> <<>>, ret |-> 0, handle |-> 0,
               hung |-> FALSE]
    /\ pc = "heap"
    /\ op = "none"
    /\ arg_a = NULL
    /\ arg_b = NULL
    /\ arg_c = NULL
    /\ arg_base = 0
    /\ arg_s = NULL
    /\ res = NULL


\* the objects a caller can pass: some handle points to them
Operands == {id \in Live : Len(heap[id].limbs) <= MaxLimbs}

ShiftInputs  == {0, 1, DB_LIMB_BITS + 1}
SmallInputs  == {0 - 2, 0, 5}

FromInt32 ==
    /\ CanCall
    /\ \E value \in {INT32_MIN, 0, 3} : ReturnNew("from_int32", <<>>, db_from_int32(value))

FromInt64 ==
    /\ CanCall
    /\ \E value \in {INT64_MIN, LimbBase + 1} : ReturnNew("from_int64", <<>>, db_from_int64(value))

FromUint32 ==
    /\ CanCall
    /\ \E value \in {UINT32_MAX} : ReturnNew("from_uint32", <<>>, db_from_uint32(value))

FromUint64 ==
    /\ CanCall
    /\ \E value \in {UINT64_MAX} : ReturnNew("from_uint64", <<>>, db_from_uint64(value))

Zero == CanCall /\ ReturnNew("zero", <<>>, db_zero)

One == CanCall /\ ReturnNew("one", <<>>, db_one)

FromString ==
    /\ CanCall
    /\ \E str \in {CStr(<<"-", "1", "2">>), CStr(<<"-", "0">>),
                   CStr(<<" ", "+", "0", "7", "x">>)},
          ub \in CastBuilds :
           ReturnNew("from_string", <<>>, db_from_string(str, 10, ub))

Copy ==
    /\ CanCall
    /\ \E a \in Operands : ReturnNew("copy", <<a>>, db_copy(Val(a)))

\* db_retain returns its argument
Retain ==
    /\ ~last.hung
    /\ Len(handles) - Len(heap) < MaxRetains
    /\ \E a \in Live :
           /\ heap' = HeapRetain(heap, a)
           /\ handles' = Append(handles, a)
           /\ retains' = [retains EXCEPT ![a] = @ + 1]
           /\ last' = [op |-> "retain", args |-> <<a>>, ret |-> a,
                        handle |-> Len(handles) + 1, hung |-> FALSE]
           /\ UNCHANGED releases

\* db_release(&handles[h])
Release ==
    /\ ~last.hung
    /\ \E h \in DOMAIN handles :
           /\ handles[h] # 0
           /\ heap' = HeapRelease(heap, handles[h])
           /\ handles' = [handles EXCEPT ![h] = 0]
           /\ releases' = [releases EXCEPT ![handles[h]] = @ + 1]
           /\ last' = [op |-> "release", args |-> <<handles[h]>>, ret |-> 0,
                        handle |-> h, hung |-> FALSE]
           /\ UNCHANGED retains

Add ==
    /\ CanCall
    /\ \E a, b \in Operands : ReturnNew("add", <<a, b>>, db_add(Val(a), Val(b)))

AddInt32 ==
    /\ CanCall
    /\ \E a \in Operands, b \in SmallInputs :
           ReturnNew("add_int32", <<a>>, db_add_int32(Val(a), b))

Subtract ==
    /\ CanCall
    /\ \E a, b \in Operands :
           ReturnNew("subtract", <<a, b>>, db_subtract(Val(a), Val(b)))

SubtractInt32 ==
    /\ CanCall
    /\ \E a \in Operands, b \in SmallInputs :
           ReturnNew("subtract_int32", <<a>>, db_subtract_int32(Val(a), b))

Negate ==
    /\ CanCall
    /\ \E a \in Operands : ReturnNew("negate", <<a>>, db_negate(Val(a)))

Multiply ==
    /\ CanCall
    /\ \E a, b \in Operands, ub \in CastBuilds :
           ReturnNew("multiply", <<a, b>>, db_multiply(Val(a), Val(b), ub))

MultiplyInt32 ==
    /\ CanCall
    /\ \E a \in Operands, b \in SmallInputs, ub \in CastBuilds :
           ReturnNew("multiply_int32", <<a>>, db_multiply_int32(Val(a), b, ub))

Divide ==
    /\ CanCall
    /\ \E a, b \in Operands :
           ReturnNew("divide", <<a, b>>, db_divide(Val(a), Val(b)))

Mod ==
    /\ CanCall
    /\ \E a, b \in Operands, ub \in CastBuilds :
           ReturnNew("mod", <<a, b>>, db_mod(Val(a), Val(b), ub))

AbsOp ==
    /\ CanCall
    /\ \E a \in Operands : ReturnNew("abs", <<a>>, db_abs(Val(a)))

And ==
    /\ CanCall
    /\ \E a, b \in Operands : ReturnNew("and", <<a, b>>, db_and(Val(a), Val(b)))

Or ==
    /\ CanCall
    /\ \E a, b \in Operands : ReturnNew("or", <<a, b>>, db_or(Val(a), Val(b)))

Xor ==
    /\ CanCall
    /\ \E a, b \in Operands : ReturnNew("xor", <<a, b>>, db_xor(Val(a), Val(b)))

Not ==
    /\ CanCall
    /\ \E a \in Operands : ReturnNew("not", <<a>>, db_not(Val(a)))

ShiftLeft ==
    /\ CanCall
    /\ \E a \in Operands, bits \in ShiftInputs :
           ReturnNew("shift_left", <<a>>, db_shift_left(Val(a), bits))

ShiftRight ==
    /\ CanCall
    /\ \E a \in Operands, bits \in ShiftInputs :
           ReturnNew("shift_right", <<a>>, db_shift_right(Val(a), bits))

Gcd ==
    /\ CanCall
    /\ \E a, b \in Operands, ub \in CastBuilds :
           ReturnNew("gcd", <<a, b>>, db_gcd(Val(a), Val(b), ub))

Lcm ==
    /\ CanCall
    /\ \E a, b \in Operands, ub \in CastBuilds :
           ReturnNew("lcm", <<a, b>>, db_lcm(Val(a), Val(b), ub))

Sqrt ==
    /\ CanCall
    /\ \E n \in Operands : ReturnNew("sqrt", <<n>>, db_sqrt(Val(n)))

Factorial ==
    /\ CanCall
    /\ \E n \in SmallInputs \cap Nat, ub \in CastBuilds :
           ReturnNew("factorial", <<>>, db_factorial(n, ub))

ModPow ==
    /\ CanCall
    /\ \E base, exp, mod \in Operands, ub \in CastBuilds :
           ReturnNew("mod_pow", <<base, exp, mod>>,
                     db_mod_pow(Val(base), Val(exp), Val(mod), ub))

NextPrime ==
    /\ CanCall
    /\ \E n \in Operands, ub \in CastBuilds :
           /\ Len(heap[n].limbs) <= 1
           /\ ReturnNew("next_prime", <<n>>, db_next_prime(Val(n), ub))

\* rand() fills every limb; the model draws all of them alike
Random ==
    /\ CanCall
    /\ \E bits \in ShiftInputs, r \in {0, DB_LIMB_MAX} :
           ReturnNew("random", <<>>,
                     db_random(bits, [i \in 1..LimbsNeeded(bits) |-> r]))

RandomRange ==
    /\ CanCall
    /\ \E min, max \in Operands, r \in {0, DB_LIMB_MAX}, ub \in CastBuilds :
           /\ Len(heap[min].limbs) <= 1
           /\ Len(heap[max].limbs) <= 1
           /\ ReturnNew("random_range", <<min, max>>,
                  db_random_range(Val(min), Val(max),
                      [i \in 1..LimbsNeeded(2 * DB_LIMB_BITS + 8) |-> r], ub))

\* the gcd is returned, the coefficients are stored through x and y
ExtendedGcd ==
    /\ CanCall
    /\ \E a, b \in Operands, ub \in CastBuilds :
           LET r == db_extended_gcd(Val(a), Val(b), ub)
               g == Len(heap) + 1
           IN  IF IsHang(r)
               THEN /\ last' = [op |-> "extended_gcd", args |-> <<a, b>>,
                                ret |-> 0, handle |-> 0, hung |-> TRUE]
                    /\ UNCHANGED <<heap, handles, retains, releases>>
               ELSE /\ heap' = HeapAlloc(HeapAlloc(HeapAlloc(heap, r.g), r.x), r.y)
                    /\ handles' = handles \o <<g, g + 1, g + 2>>
                    /\ retains' = retains \o <<0, 0, 0>>
                    /\ releases' = releases \o <<0, 0, 0>>
                    /\ last' = [op |-> "extended_gcd", args |-> <<a, b>>,
                                ret |-> g, handle |-> Len(handles) + 1,
                                hung |-> FALSE]

\* the operations machine: every operation that returns a big integer
Next ==
    /\ UNCHANGED <<pc, op, arg_a, arg_b, arg_c, arg_base, arg_s, res>>
    /\ \/ FromInt32 \/ FromInt64 \/ FromUint32 \/ FromUint64
       \/ Zero \/ One \/ FromString \/ Copy
       \/ Add \/ AddInt32 \/ Subtract \/ SubtractInt32 \/ Negate
       \/ Multiply \/ MultiplyInt32 \/ Divide \/ Mod \/ AbsOp
       \/ And \/ Or \/ Xor \/ Not \/ ShiftLeft \/ ShiftRight
       \/ Gcd \/ Lcm \/ Sqrt \/ Factorial \/ ModPow \/ NextPrime
       \/ Random \/ RandomRange \/ ExtendedGcd

\* the reference-counting machine: objects are made, copied, retained and
\* released
NextRef ==
    /\ UNCHANGED <<pc, op, arg_a, arg_b, arg_c, arg_base, arg_s, res>>
    /\ \/ FromInt32 \/ Copy \/ Retain \/ Release

SpecRef == Init /\ [][NextRef]_vars

Spec == Init /\ [][Next]_vars

(***************************************************************************)
(* The build with DB_LIMB_BITS 16: db_limb_t is half as wide as int32_t,   *)
(* and a cast to db_limb_t keeps the low half.  The constructors and       *)
(* conversions are the same source lines read with that limb.              *)
(***************************************************************************)
LimbBase16 == 2 ^ (DB_LIMB_BITS \div 2)

\* limb_count is set to 1 for every value but 0, without db_normalize
db_from_int32_limb16(value) ==
    [limbs |-> IF value # 0
               THEN <<(IF value < 0
                       THEN (IF value = INT32_MIN
                             THEN (INT32_MAX % LimbBase16) + 1
                             ELSE 0 - value)
                       ELSE value) % LimbBase16>>
               ELSE <<>>,
     is_negative |-> value < 0]

db_from_int64_limb16(value) ==
    LET uval == IF value < 0
                THEN (IF value = INT64_MIN THEN INT64_MAX + 1 ELSE 0 - value)
                ELSE value
    IN  db_normalize([limbs |-> <<uval % LimbBase16,
                                  (uval \div LimbBase16) % LimbBase16>>,
                      is_negative |-> value < 0])

db_to_int32_limb16(big, result) ==
    IF IsNull(big) THEN [ret |-> FALSE, result |-> result]
    ELSE IF Len(big.limbs) = 0 THEN [ret |-> TRUE, result |-> 0]
    ELSE IF Len(big.limbs) > 1 THEN [ret |-> FALSE, result |-> result]
    ELSE LET val == big.limbs[1]
         IN  IF big.is_negative
             THEN IF val > (INT32_MAX % LimbBase16) + 1
                  THEN [ret |-> FALSE, result |-> result]
                  ELSE IF val = (INT32_MAX % LimbBase16) + 1
                       THEN [ret |-> TRUE, result |-> INT32_MIN]
                  ELSE [ret |-> TRUE, result |-> 0 - val]
             ELSE IF val > INT32_MAX THEN [ret |-> FALSE, result |-> result]
                  ELSE [ret |-> TRUE, result |-> val]

db_to_int64_limb16(big, result) ==
    IF IsNull(big) THEN [ret |-> FALSE, result |-> result]
    ELSE IF Len(big.limbs) = 0 THEN [ret |-> TRUE, result |-> 0]
    ELSE IF Len(big.limbs) > 2 THEN [ret |-> FALSE, result |-> result]
    ELSE LET val == IF Len(big.limbs) = 2
                    THEN big.limbs[1] + big.limbs[2] * LimbBase16
                    ELSE big.limbs[1]
         IN  IF big.is_negative
             THEN IF val > INT64_MAX + 1 THEN [ret |-> FALSE, result |-> result]
                  ELSE IF val = INT64_MAX + 1
                       THEN [ret |-> TRUE, result |-> INT64_MIN]
                  ELSE [ret |-> TRUE, result |-> 0 - val]
             ELSE IF val > INT64_MAX THEN [ret |-> FALSE, result |-> result]
                  ELSE [ret |-> TRUE, result |-> val]

(***************************************************************************)
(* Overflow detection helpers on native integers.  result is what *result  *)
(* holds before the call; each returns [ret, result] as the conversions do.*)
(* The 32-bit helpers compute in int64_t, where the sum, difference and    *)
(* product of two int32_t always fit; the 64-bit helpers test before they  *)
(* compute.                                                                *)
(***************************************************************************)
\* the / of C on integers: the quotient truncated toward zero
TruncDiv(x, y) ==
    LET q == Abs(x) \div Abs(y)
    IN  IF (x < 0) # (y < 0) THEN 0 - q ELSE q

db_add_overflow_int32(a, b, result) ==
    LET sum == a + b
    IN  IF sum < INT32_MIN \/ sum > INT32_MAX
        THEN [ret |-> FALSE, result |-> result]
        ELSE [ret |-> TRUE, result |-> sum]

db_subtract_overflow_int32(a, b, result) ==
    LET diff == a - b
    IN  IF diff < INT32_MIN \/ diff > INT32_MAX
        THEN [ret |-> FALSE, result |-> result]
        ELSE [ret |-> TRUE, result |-> diff]

db_multiply_overflow_int32(a, b, result) ==
    LET prod == a * b
    IN  IF prod < INT32_MIN \/ prod > INT32_MAX
        THEN [ret |-> FALSE, result |-> result]
        ELSE [ret |-> TRUE, result |-> prod]

db_add_overflow_int64(a, b, result) ==
    IF b > 0 /\ a > INT64_MAX - b THEN [ret |-> FALSE, result |-> result]
    ELSE IF b < 0 /\ a < INT64_MIN - b THEN [ret |-> FALSE, result |-> result]
    ELSE [ret |-> TRUE, result |-> a + b]

db_subtract_overflow_int64(a, b, result) ==
    IF b < 0 /\ a > INT64_MAX + b THEN [ret |-> FALSE, result |-> result]
    ELSE IF b > 0 /\ a < INT64_MIN + b THEN [ret |-> FALSE, result |-> result]
    ELSE [ret |-> TRUE, result |-> a - b]

\* db_multiply_overflow_int64 testing only against INT64_MAX
db_multiply_overflow_int64_max_only(a, b, result) ==
    IF a = 0 \/ b = 0 THEN [ret |-> TRUE, result |-> 0]
    ELSE IF Abs(a) > TruncDiv(INT64_MAX, Abs(b))
         THEN [ret |-> FALSE, result |-> result]
    ELSE [ret |-> TRUE, result |-> a * b]

db_multiply_overflow_int64(a, b, result) ==
    IF a = 0 \/ b = 0 THEN [ret |-> TRUE, result |-> 0]
    ELSE IF a > 0 /\ b > 0 /\ a > TruncDiv(INT64_MAX, b)
         THEN [ret |-> FALSE, result |-> result]
    ELSE IF a > 0 /\ b <= 0 /\ b < TruncDiv(INT64_MIN, a)
         THEN [ret |-> FALSE, result |-> result]
    ELSE IF a <= 0 /\ b > 0 /\ a < TruncDiv(INT64_MIN, b)
         THEN [ret |-> FALSE, result |-> result]
    ELSE IF a <= 0 /\ b <= 0 /\ a # 0 /\ b < TruncDiv(INT64_MAX, a)
         THEN [ret |-> FALSE, result |-> result]
    ELSE [ret |-> TRUE, result |-> a * b]

(***************************************************************************)
(* SpecFn: one call of an arithmetic or conversion function on operands    *)
(* drawn from FnValues, the values around the limb, mantissa and int64     *)
(* boundaries.  Each is a value the constructors return: db_from_uint64 of *)
(* the magnitude, negated by db_negate.                                    *)
(***************************************************************************)
FnMagnitudes ==
    {0, 1, 2, 3}
    \cup {LimbBase - 1, LimbBase, LimbBase + 1, 2 * LimbBase, 2 * LimbBase + 1}
    \cup {2 ^ DBL_MANT_DIG - 1, 2 ^ DBL_MANT_DIG, 2 ^ DBL_MANT_DIG + 1}
    \cup {INT64_MAX, INT64_MAX + 1, UINT64_MAX}

FnValues ==
    {db_from_uint64(m) : m \in FnMagnitudes}
    \cup {db_negate(db_from_uint64(m)) : m \in FnMagnitudes}

InitFn ==
    /\ heap = <<>>
    /\ handles = <<>>
    /\ retains = <<>>
    /\ releases = <<>>
    /\ last = [op |-> "none"]
    /\ pc = "call"
    /\ res = NULL
    /\ \/ /\ op \in {"add", "multiply", "divide", "mod", "divmod", "compare",
                    "gcd", "lcm", "extended_gcd"}
          /\ arg_a \in FnValues
          /\ arg_b \in FnValues
          /\ arg_c = NULL
          /\ arg_base = 0
          /\ arg_s = NULL
       \/ /\ op = "to_string"
          /\ arg_a \in FnValues
          /\ arg_b = NULL
          /\ arg_c = NULL
          /\ arg_base \in 2..36
          /\ arg_s = NULL
       \/ /\ op = "round_trip"
          /\ arg_a = NULL
          /\ arg_b = NULL
          /\ arg_c = NULL
          /\ arg_base = 10
          \* canonical decimal strings: optional '-', no leading zeros
          /\ arg_s \in {CStr(DigitsOf(n, 10)) : n \in 0..(10 ^ MaxDigits - 1)}
                      \cup {CStr(<<"-">> \o DigitsOf(n, 10)) :
                               n \in 1..(10 ^ MaxDigits - 1)}
       \/ /\ op \in {"to_int32", "to_int64"}
          \* FnValues, the values around the int32 boundary, and 1 and -1
          \* shifted left by two limbs (three limbs)
          /\ arg_a \in FnValues
                      \cup {db_from_uint64(m) :
                               m \in {INT32_MAX, INT32_MAX + 1, INT32_MAX + 2}}
                      \cup {db_negate(db_from_uint64(m)) :
                               m \in {INT32_MAX, INT32_MAX + 1, INT32_MAX + 2}}
                      \cup {db_shift_left(db_one, 2 * DB_LIMB_BITS),
                            db_shift_left(db_negate(db_one), 2 * DB_LIMB_BITS)}
          /\ arg_b \in {0, 7}
          /\ arg_c = NULL
          /\ arg_base = 0
          /\ arg_s = NULL
       \/ /\ op = "from_int64"
          /\ arg_a \in INT64_MIN..INT64_MAX
          /\ arg_b = NULL
          /\ arg_c = NULL
          /\ arg_base = 0
          /\ arg_s = NULL
       \/ /\ op = "shift_left"
          /\ arg_a \in FnValues
          /\ arg_b \in 0..(2 * DB_LIMB_BITS + 1)
          /\ arg_c = NULL
          /\ arg_base = 0
          /\ arg_s = NULL
       \/ /\ op = "sqrt"
          /\ arg_a \in FnValues \cup {db_from_uint32(m) : m \in 0..UINT32_MAX}
          /\ arg_b = NULL
          /\ arg_c = NULL
          /\ arg_base = 0
          /\ arg_s = NULL
       \/ /\ op = "mod_pow"
          /\ arg_a \in FnValues
          /\ arg_b \in FnValues
          /\ arg_c \in {m \in FnValues : db_is_positive(m)}
          /\ arg_base = 0
          /\ arg_s = NULL
       \/ /\ op = "is_prime"
          /\ arg_a \in FnValues \cup {db_from_int32(m) : m \in INT32_MIN..INT32_MAX}
                              \cup {db_from_uint32(m) : m \in 0..UINT32_MAX}
          /\ arg_b \in {0, 10}
          /\ arg_c = NULL
          /\ arg_base = 0
          /\ arg_s = NULL
       \/ /\ op = "next_prime"
          \* the walk up by twos from these starts ends within a few steps
          /\ arg_a \in {db_from_int32(m) : m \in INT32_MIN..INT32_MAX}
                      \cup {db_from_uint64(m) : m \in (LimbBase - 1)..(2 * LimbBase + 1)}
                      \cup {db_from_uint64(2 ^ DBL_MANT_DIG - 1)}
          /\ arg_b = NULL
          /\ arg_c = NULL
          /\ arg_base = 0
          /\ arg_s = NULL
       \/ /\ op = "random_range"
          /\ arg_a \in FnValues
          /\ arg_b \in FnValues
          \* the limbs rand() fills in
          /\ arg_c \in [1..LimbsNeeded(2 * DB_LIMB_BITS + 9) -> {0, 1, DB_LIMB_MAX}]
          /\ arg_base = 0
          /\ arg_s = NULL
       \/ /\ op \in {"add_overflow_int32", "subtract_overflow_int32",
                    "multiply_overflow_int32"}
          /\ arg_a \in INT32_MIN..INT32_MAX
          /\ arg_b \in INT32_MIN..INT32_MAX
          /\ arg_c \in {0, 7}
          /\ arg_base = 0
          /\ arg_s = NULL
       \/ /\ op \in {"add_overflow_int64", "subtract_overflow_int64",
                    "multiply_overflow_int64"}
          /\ arg_a \in (0 - LimbBase - 1)..(LimbBase + 1)
                      \cup {INT64_MIN, INT64_MIN + 1, INT64_MIN \div 2,
                            INT64_MAX \div 2, INT64_MAX - 1, INT64_MAX}
          /\ arg_b \in (0 - LimbBase - 1)..(LimbBase + 1)
                      \cup {INT64_MIN, INT64_MIN + 1, INT64_MIN \div 2,
                            INT64_MAX \div 2, INT64_MAX - 1, INT64_MAX}
          /\ arg_c \in {0, 7}
          /\ arg_base = 0
          /\ arg_s = NULL
       \/ /\ op = "mod_pow_live"
          /\ arg_a \in {db_zero, db_from_int32(3)}
          /\ arg_b \in FnValues
          /\ arg_c \in FnValues
          /\ arg_base = 0
          /\ arg_s = NULL
       \/ /\ op = "next_prime_live"
          /\ arg_a \in {db_from_int32(m) : m \in INT32_MIN..INT32_MAX}
                      \cup {db_from_uint64(m) : m \in (LimbBase - 1)..(2 * LimbBase + 1)}
          /\ arg_b = NULL
          /\ arg_c = NULL
          /\ arg_base = 0
          /\ arg_s = NULL
       \/ /\ op = "from_int32_limb16"
          /\ arg_a \in INT32_MIN..INT32_MAX
          /\ arg_b = NULL
          /\ arg_c = NULL
          /\ arg_base = 0
          /\ arg_s = NULL
       \/ /\ op = "from_int64_limb16"
          /\ arg_a \in INT64_MIN..INT64_MAX
          /\ arg_b = NULL
          /\ arg_c = NULL
          /\ arg_base = 0
          /\ arg_s = NULL
       \/ /\ op = "from_string"
          /\ arg_a = NULL
          /\ arg_b = NULL
          /\ arg_c = NULL
          /\ arg_base \in {2, 10, 36}
          /\ arg_s \in {CStr(c) : c \in UNION {[1..k -> {" ", "+", "-", "0", "1", "9", "z"}] :
                                                k \in 0..MaxDigits}}

\* the call returns r, or never returns
Return(r) ==
    /\ pc' = IF IsHang(r) THEN "hung" ELSE "done"
    /\ res' = r
    /\ UNCHANGED <<op, arg_a, arg_b, arg_c, arg_base, arg_s>>
    /\ UNCHANGED <<heap, handles, retains, releases, last>>

CallAdd ==
    /\ pc = "call" /\ op = "add"
    /\ Return(db_add(arg_a, arg_b))

CallMultiply ==
    /\ pc = "call" /\ op = "multiply"
    /\ \E ub \in CastBuilds : Return(db_multiply(arg_a, arg_b, ub))

CallDivide ==
    /\ pc = "call" /\ op = "divide"
    /\ Return(db_divide(arg_a, arg_b))

CallMod ==
    /\ pc = "call" /\ op = "mod"
    /\ \E ub \in CastBuilds : Return(db_mod(arg_a, arg_b, ub))

\* q = a / b; m = a mod b; back = q * b + m
DivModIdentity(a, b, ub) ==
    LET q == db_divide(a, b)
        m == db_mod(a, b, ub)
    IN  IF IsHang(q) THEN Hang
        ELSE [q |-> q, m |-> m, back |-> db_add(db_multiply(q, b, ub), m)]

CallDivMod ==
    /\ pc = "call" /\ op = "divmod"
    /\ \E ub \in CastBuilds : Return(DivModIdentity(arg_a, arg_b, ub))

CallToString ==
    /\ pc = "call" /\ op = "to_string"
    /\ Return(db_to_string(arg_a, arg_base))

\* db_to_string(db_from_string(s, base), base)
RoundTrip(str, base, ub) ==
    LET v == db_from_string(str, base, ub)
    IN  [v |-> v, text |-> db_to_string(v, base)]

CallRoundTrip ==
    /\ pc = "call" /\ op = "round_trip"
    /\ \E ub \in CastBuilds : Return(RoundTrip(arg_s, arg_base, ub))

CallFromString ==
    /\ pc = "call" /\ op = "from_string"
    /\ \E ub \in CastBuilds : Return(db_from_string(arg_s, arg_base, ub))

CallToInt32 ==
    /\ pc = "call" /\ op = "to_int32"
    /\ Return(db_to_int32(arg_a, arg_b))

CallToInt64 ==
    /\ pc = "call" /\ op = "to_int64"
    /\ Return(db_to_int64(arg_a, arg_b))

CallFromInt64 ==
    /\ pc = "call" /\ op = "from_int64"
    /\ Return(db_from_int64(arg_a))

CallCompare ==
    /\ pc = "call" /\ op = "compare"
    /\ Return([ret |-> db_compare(arg_a, arg_b)])

CallShiftLeft ==
    /\ pc = "call" /\ op = "shift_left"
    /\ Return(db_shift_left(arg_a, arg_b))

CallGcd ==
    /\ pc = "call" /\ op = "gcd"
    /\ \E ub \in CastBuilds : Return(db_gcd(arg_a, arg_b, ub))

CallLcm ==
    /\ pc = "call" /\ op = "lcm"
    /\ \E ub \in CastBuilds : Return(db_lcm(arg_a, arg_b, ub))

CallExtendedGcd ==
    /\ pc = "call" /\ op = "extended_gcd"
    /\ \E ub \in CastBuilds : Return(db_extended_gcd(arg_a, arg_b, ub))

CallSqrt ==
    /\ pc = "call" /\ op = "sqrt"
    /\ Return(db_sqrt(arg_a))

CallModPow ==
    /\ pc = "call" /\ op = "mod_pow"
    /\ \E ub \in CastBuilds : Return(db_mod_pow(arg_a, arg_b, arg_c, ub))

CallIsPrime ==
    /\ pc = "call" /\ op = "is_prime"
    /\ \E ub \in CastBuilds : Return(db_is_prime(arg_a, arg_b, ub))

CallNextPrime ==
    /\ pc = "call" /\ op = "next_prime"
    /\ \E ub \in CastBuilds : Return(db_next_prime(arg_a, ub))

CallRandomRange ==
    /\ pc = "call" /\ op = "random_range"
    /\ \E ub \in CastBuilds : Return(db_random_range(arg_a, arg_b, arg_c, ub))

CallOverflowHelper ==
    /\ pc = "call"
    /\ \/ op = "add_overflow_int32"
          /\ Return(db_add_overflow_int32(arg_a, arg_b, arg_c))
       \/ op = "subtract_overflow_int32"
          /\ Return(db_subtract_overflow_int32(arg_a, arg_b, arg_c))
       \/ op = "multiply_overflow_int32"
          /\ Return(db_multiply_overflow_int32(arg_a, arg_b, arg_c))
       \/ op = "add_overflow_int64"
          /\ Return(db_add_overflow_int64(arg_a, arg_b, arg_c))
       \/ op = "subtract_overflow_int64"
          /\ Return(db_subtract_overflow_int64(arg_a, arg_b, arg_c))
       \/ op = "multiply_overflow_int64"
          /\ Return(db_multiply_overflow_int64(arg_a, arg_b, arg_c))

CallModPowLive ==
    /\ pc = "call" /\ op = "mod_pow_live"
    /\ Return(db_mod_pow_live(arg_a, arg_b, arg_c))

CallNextPrimeLive ==
    /\ pc = "call" /\ op = "next_prime_live"
    /\ \E ub \in CastBuilds : Return(db_next_prime_live(arg_a, ub))

CallFromIntLimb16 ==
    /\ pc = "call"
    /\ \/ op = "from_int32_limb16" /\ Return(db_from_int32_limb16(arg_a))
       \/ op = "from_int64_limb16" /\ Return(db_from_int64_limb16(arg_a))

NextFn ==
    \/ CallAdd
    \/ CallMultiply
    \/ CallDivide
    \/ CallMod
    \/ CallDivMod
    \/ CallToString
    \/ CallRoundTrip
    \/ CallFromString
    \/ CallToInt32
    \/ CallToInt64
    \/ CallFromInt64
    \/ CallCompare
    \/ CallShiftLeft
    \/ CallGcd
    \/ CallLcm
    \/ CallExtendedGcd
    \/ CallSqrt
    \/ CallModPow
    \/ CallIsPrime
    \/ CallNextPrime
    \/ CallRandomRange
    \/ CallOverflowHelper
    \/ CallModPowLive
    \/ CallNextPrimeLive
    \/ CallFromIntLimb16

SpecFn == InitFn /\ [][NextFn]_vars


(***************************************************************************)
(* Claims about single calls (checked under SpecFn)                        *)
(***************************************************************************)
\* the canonical text of a value in a base: '-' when negative, then the
\* digits of the magnitude, lowercase, no leading zeros
CanonText(v, base) ==
    CStr((IF v.is_negative THEN <<"-">> ELSE <<>>) \o DigitsOf(Mag(v.limbs), base))

\* C2: db_multiply(a, b) is the exact product: its magnitude is |a|*|b| and
\* it is negative exactly when one operand is negative and the product is
\* not zero.
C2_MultiplyExact ==
    (pc = "done" /\ op = "multiply") =>
        /\ ~IsNull(res)
        /\ Mag(res.limbs) = Mag(arg_a.limbs) * Mag(arg_b.limbs)
        /\ res.is_negative = (/\ arg_a.is_negative # arg_b.is_negative
                              /\ Mag(arg_a.limbs) * Mag(arg_b.limbs) # 0)

\* C3: db_add(a, b) is the exact sum for every limb count and sign
\* combination (with differing signs: larger magnitude minus smaller, sign
\* of the larger).
C3_AddExact ==
    (pc = "done" /\ op = "add") =>
        /\ ~IsNull(res)
        /\ res = ValOf(IntOf(arg_a) + IntOf(arg_b))

\* C4: for b # 0, db_divide(a, b) returns the quotient truncated toward
\* zero: magnitude floor(|a| / |b|), negative exactly when the signs differ
\* and the quotient is not zero.
C4_DivideTruncates ==
    (pc # "call" /\ op = "divide" /\ ~db_is_zero(arg_b)) =>
        /\ pc = "done"
        /\ ~IsNull(res)
        /\ res = ValOf(TruncDiv(IntOf(arg_a), IntOf(arg_b)))

\* C5: for b # 0, a equals (a / b) * b + (a mod b), the remainder is zero
\* or has the sign of a, and |a mod b| < |b|.
C5_DivisionIdentity ==
    (pc # "call" /\ op = "divmod" /\ ~db_is_zero(arg_b)) =>
        /\ pc = "done"
        /\ ~IsNull(res.q) /\ ~IsNull(res.m) /\ ~IsNull(res.back)
        /\ db_equal(arg_a, res.back)
        /\ (db_is_zero(res.m) \/ res.m.is_negative = arg_a.is_negative)
        /\ Mag(res.m.limbs) < Mag(arg_b.limbs)

\* C9: for every base 2..36, db_to_string(v, base) is the canonical text:
\* '-' when v < 0, then the base-b digits of |v| without leading zeros,
\* lowercase letters for the digits 10..35; "0" for zero.
C9_ToStringCanonical ==
    (pc = "done" /\ op = "to_string") => res = CanonText(arg_a, arg_base)

\* C10: for every canonical decimal string s,
\* db_to_string(db_from_string(s, 10), 10) equals s.
C10_DecimalRoundTrip ==
    (pc = "done" /\ op = "round_trip") => res.text = arg_s

\* whether the text holds a digit of the base right after its leading
\* whitespace and one optional sign
StartsWithDigit(chars, base) ==
    LET s1 == SkipSpace(chars)
        s2 == IF s1 # <<>> /\ Head(s1) \in {"+", "-"} THEN Tail(s1) ELSE s1
    IN  s2 # <<>> /\ DigitVal(Head(s2)) >= 0 /\ DigitVal(Head(s2)) < base

\* C11: db_from_string(str, base) returns NULL whenever str holds no valid
\* digit of the base after the optional whitespace and sign (empty,
\* whitespace only, a lone sign, or a first character that is no digit).
C11_NullWithoutDigit ==
    (pc = "done" /\ op = "from_string" /\ ~StartsWithDigit(arg_s.chars, arg_base))
        => IsNull(res)

\* C12: db_to_int32 (db_to_int64) returns true exactly when the value lies
\* in [INT32_MIN, INT32_MAX] ([INT64_MIN, INT64_MAX]), the most negative
\* value included; on true *result holds the exact value, on false *result
\* is not written.
C12_ToIntInRange ==
    /\ (pc = "done" /\ op = "to_int32") =>
          /\ res.ret = (IntOf(arg_a) >= INT32_MIN /\ IntOf(arg_a) <= INT32_MAX)
          /\ res.result = IF res.ret THEN IntOf(arg_a) ELSE arg_b
    /\ (pc = "done" /\ op = "to_int64") =>
          /\ res.ret = (IntOf(arg_a) >= INT64_MIN /\ IntOf(arg_a) <= INT64_MAX)
          /\ res.result = IF res.ret THEN IntOf(arg_a) ELSE arg_b

C12_Witness ==
    /\ pc = "done" /\ op = "to_int32"
    /\ IntOf(arg_a) = INT32_MIN
    /\ arg_b = 7
    /\ res = [ret |-> TRUE, result |-> INT32_MIN]

\* C13: integer round trip.  For every int64 v, db_to_int64 of
\* db_from_int64(v) returns true and writes v; and whenever
\* db_to_int64(x, &v) returns true, db_from_int64(v) compares equal to x.
C13_Int64RoundTrip ==
    /\ (pc = "done" /\ op = "from_int64") =>
          db_to_int64(res, arg_a + 1) = [ret |-> TRUE, result |-> arg_a]
    /\ (pc = "done" /\ op = "to_int64" /\ res.ret) =>
          db_equal(db_from_int64(res.result), arg_a)

C13_Witness ==
    /\ pc = "done" /\ op = "from_int64"
    /\ arg_a = INT64_MIN
    /\ res = [limbs |-> <<0, LimbBase \div 2>>, is_negative |-> TRUE]

\* C14: for canonical a and b, db_compare(a, b) is -1, 0 or 1 according to
\* whether the integer a is less than, equal to or greater than the integer
\* b; hence db_compare(a, b) = -db_compare(b, a), and the order is
\* transitive.
C14_CompareIsIntegerOrder ==
    (pc = "done" /\ op = "compare") =>
        /\ res.ret = IF IntOf(arg_a) < IntOf(arg_b) THEN -1
                     ELSE IF IntOf(arg_a) = IntOf(arg_b) THEN 0 ELSE 1
        /\ res.ret = 0 - db_compare(arg_b, arg_a)
        /\ \A c \in FnValues :
              (res.ret <= 0 /\ db_compare(arg_b, c) <= 0) => db_compare(arg_a, c) <= 0

C14_Witness ==
    /\ pc = "done" /\ op = "compare"
    /\ arg_a.is_negative /\ arg_b.is_negative
    /\ Len(arg_a.limbs) = 2 /\ Len(arg_b.limbs) = 2
    /\ Mag(arg_a.limbs) < Mag(arg_b.limbs)
    /\ res.ret = 1

\* C15: db_add is commutative and associative over values of any sign and
\* limb count: db_add(a, b) equals db_add(b, a), and for every c
\* db_add(db_add(a, b), c) equals db_add(a, db_add(b, c)).
C15_AddCommutesAssociates ==
    (pc = "done" /\ op = "add") =>
        /\ db_equal(res, db_add(arg_b, arg_a))
        /\ \A c \in FnValues :
              db_equal(db_add(res, c), db_add(arg_a, db_add(arg_b, c)))

\* C16: for every value x and bit count k >= 0, db_shift_left(x, k) has
\* magnitude |x| * 2^k and the sign of x (zero stays non-negative zero),
\* for k below, equal to and above the limb width.
C16_ShiftLeftMultiplies ==
    (pc = "done" /\ op = "shift_left") =>
        /\ ~IsNull(res)
        /\ res = ValOf(IntOf(arg_a) * 2 ^ arg_b)

C16_Witness ==
    /\ pc = "done" /\ op = "shift_left"
    /\ arg_b = DB_LIMB_BITS + 1
    /\ arg_a.is_negative
    /\ Len(res.limbs) = Len(arg_a.limbs) + 2
    /\ res.is_negative

\* d divides n (only 0 is divisible by 0)
Divides(d, n) == IF d = 0 THEN n = 0 ELSE n % d = 0

\* C17: for all a and b of any sign, db_gcd(a, b) is non-negative and
\* divides both a and b, db_gcd(a, 0) = |a|, and
\* db_gcd(a, b) * db_lcm(a, b) = |a * b| (db_lcm is zero when an operand
\* is zero).
C17_GcdLcm ==
    /\ (pc # "call" /\ op = "gcd") =>
          /\ pc = "done"
          /\ ~IsNull(res)
          /\ ~res.is_negative
          /\ Divides(Mag(res.limbs), Mag(arg_a.limbs))
          /\ Divides(Mag(res.limbs), Mag(arg_b.limbs))
          /\ db_is_zero(arg_b) => Mag(res.limbs) = Mag(arg_a.limbs)
    /\ (pc # "call" /\ op = "lcm") =>
          /\ pc = "done"
          /\ ~IsNull(res)
          /\ (db_is_zero(arg_a) \/ db_is_zero(arg_b)) => db_is_zero(res)
          /\ \A ub \in CastBuilds :
                LET gcd == db_gcd(arg_a, arg_b, ub)
                IN  /\ ~IsHang(gcd) /\ ~IsNull(gcd)
                    /\ Mag(gcd.limbs) * Mag(res.limbs)
                           = Mag(arg_a.limbs) * Mag(arg_b.limbs)

\* C18: for all a and b of any sign, db_extended_gcd(a, b, &x, &y) returns
\* g >= 0 and coefficients x, y with a*x + b*y = g.
C18_BezoutIdentity ==
    (pc # "call" /\ op = "extended_gcd") =>
        /\ pc = "done"
        /\ ~IsNull(res)
        /\ ~res.g.is_negative
        /\ IntOf(arg_a) * IntOf(res.x) + IntOf(arg_b) * IntOf(res.y) = IntOf(res.g)

\* C19: for every non-negative n, db_sqrt(n) returns r = floor(sqrt(n)),
\* that is r * r <= n < (r + 1) * (r + 1), also for n = 0, 1, 2, 3; the
\* iteration cap never cuts the Newton loop short of that value.
C19_SqrtIsFloor ==
    (pc # "call" /\ op = "sqrt" /\ ~arg_a.is_negative) =>
        /\ pc = "done"
        /\ ~IsNull(res)
        /\ ~res.is_negative
        /\ Mag(res.limbs) * Mag(res.limbs) <= Mag(arg_a.limbs)
        /\ Mag(arg_a.limbs) < (Mag(res.limbs) + 1) * (Mag(res.limbs) + 1)

\* b^e mod m for e >= 0 and m > 0, in [0, m)
RECURSIVE PowMod(_, _, _)
PowMod(b, e, m) ==
    IF e = 0 THEN 1 % m
    ELSE LET h == PowMod(b, e \div 2, m)
         IN  IF e % 2 = 1 THEN (((h * h) % m) * (b % m)) % m
             ELSE (h * h) % m

\* C20: for every base b, exponent e >= 0 and modulus m > 0,
\* db_mod_pow(b, e, m) equals b^e mod m (for b >= 0 the value in [0, m)),
\* with result 0 when m = 1 and result 1 when e = 0 and m > 1.
C20_ModPowExact ==
    (pc # "call" /\ op = "mod_pow" /\ ~db_is_negative(arg_b)) =>
        /\ pc = "done"
        /\ ~IsNull(res)
        /\ (IntOf(res) - PowMod(IntOf(arg_a), IntOf(arg_b), IntOf(arg_c)))
               % IntOf(arg_c) = 0
        /\ ~arg_a.is_negative =>
               IntOf(res) = PowMod(IntOf(arg_a), IntOf(arg_b), IntOf(arg_c))

\* n is a prime number
IsPrimeInt(n) == n > 1 /\ \A d \in 2..(n - 1) : n % d # 0

\* C21: for every value n (negative, zero or positive) and every certainty,
\* db_is_prime(n, certainty) returns true exactly when n is prime; the
\* answer does not depend on certainty.
C21_IsPrimeExact ==
    (pc # "call" /\ op = "is_prime") =>
        /\ pc = "done"
        /\ res.ret = IsPrimeInt(IntOf(arg_a))

\* C22: for every value n, db_next_prime(n) returns a prime p >= n such
\* that no integer strictly between n and p is prime.
C22_NextPrimeIsNext ==
    (pc # "call" /\ op = "next_prime") =>
        /\ pc = "done"
        /\ ~IsNull(res)
        /\ IsPrimeInt(IntOf(res))
        /\ IntOf(res) >= IntOf(arg_a)
        /\ \A k \in (IntOf(arg_a) + 1)..(IntOf(res) - 1) : ~IsPrimeInt(k)

\* C23: for all min < max and every outcome of the generator, a non-null
\* result r of db_random_range(min, max) satisfies min <= r < max.
C23_RandomRangeInRange ==
    (pc = "done" /\ op = "random_range" /\ ~IsNull(res)) =>
        /\ IntOf(arg_a) <= IntOf(res)
        /\ IntOf(res) < IntOf(arg_b)

\* C24: each overflow helper returns true exactly when the exact result of
\* the operation fits in the target width, stores that exact result when it
\* returns true, and leaves *result as it was when it returns false.
C24_OverflowHelpersExact ==
    /\ (pc = "done" /\ op \in {"add_overflow_int32", "add_overflow_int64",
                                "subtract_overflow_int32", "subtract_overflow_int64",
                                "multiply_overflow_int32", "multiply_overflow_int64"}) =>
           LET exact == CASE op \in {"add_overflow_int32", "add_overflow_int64"}
                               -> arg_a + arg_b
                          [] op \in {"subtract_overflow_int32", "subtract_overflow_int64"}
                               -> arg_a - arg_b
                          [] OTHER -> arg_a * arg_b
               wide  == op \in {"add_overflow_int64", "subtract_overflow_int64",
                                "multiply_overflow_int64"}
               fits  == IF wide THEN INT64_MIN <= exact /\ exact <= INT64_MAX
                                ELSE INT32_MIN <= exact /\ exact <= INT32_MAX
           IN  /\ res.ret = fits
               /\ res.result = IF fits THEN exact ELSE arg_c

\* -1 * INT64_MIN is refused and INT64_MIN * 1 is stored
C24_Witness ==
    /\ pc = "done" /\ op = "multiply_overflow_int64"
    /\ \/ arg_a = 0 - 1 /\ arg_b = INT64_MIN /\ ~res.ret /\ res.result = arg_c
       \/ arg_a = INT64_MIN /\ arg_b = 1 /\ res.ret /\ res.result = INT64_MIN

C26_EveryCallReturns ==
    pc # "hung"


\* the value of the maximal run of digits of the base at the head of p,
\* continuing from acc
RECURSIVE RunValue(_, _, _)
RunValue(p, base, acc) ==
    IF p = <<>> \/ DigitVal(Head(p)) < 0 \/ DigitVal(Head(p)) >= base THEN acc
    ELSE RunValue(Tail(p), base, acc * base + DigitVal(Head(p)))

\* the integer a text denotes by its prefix: whitespace, one optional sign,
\* then the maximal run of digits of the base
PrefixValue(chars, base) ==
    LET s1 == SkipSpace(chars)
        s2 == IF s1 # <<>> /\ Head(s1) \in {"+", "-"} THEN Tail(s1) ELSE s1
        m  == RunValue(s2, base, 0)
    IN  IF s1 # <<>> /\ Head(s1) = "-" THEN 0 - m ELSE m

\* C27: whenever the text, after the optional whitespace and sign, begins
\* with a valid digit of the base (a leading zero included), db_from_string
\* succeeds and returns the value of the maximal run of valid digits with
\* the given sign, ignoring everything from the first invalid character on.
C27_PrefixAccepted ==
    (pc = "done" /\ op = "from_string" /\ StartsWithDigit(arg_s.chars, arg_base)) =>
        /\ ~IsNull(res)
        /\ IntOf(res) = PrefixValue(arg_s.chars, arg_base)


\* C28: db_mod_pow(base, exp, mod) with a negative exponent is an error: a
\* call that returns gives the caller no numeric result.
C28_NegativeExponentIsError ==
    (pc = "done" /\ op = "mod_pow" /\ db_is_negative(arg_b)) => IsNull(res)


\* C29: no public operation leaks: when db_mod_pow or db_next_prime returns,
\* on any path, every object the call allocated internally has been
\* released, except the object handed back to the caller.
C29_NoLeak ==
    (pc = "done" /\ op \in {"mod_pow_live", "next_prime_live"}) => res.ret = 0


\* C30: with DB_LIMB_BITS = 16 as with 32, db_from_int32(v) and
\* db_from_int64(v) represent v exactly for every v: db_to_int32 and
\* db_to_int64 succeed on them and give back v.
C30_BothLimbWidthsExact ==
    /\ (pc = "done" /\ op = "from_int32_limb16") =>
          db_to_int32_limb16(res, arg_a + 1) = [ret |-> TRUE, result |-> arg_a]
    /\ (pc = "done" /\ op = "from_int64_limb16") =>
          db_to_int64_limb16(res, arg_a + 1) = [ret |-> TRUE, result |-> arg_a]
    /\ (pc = "done" /\ op = "from_int64") =>
          db_to_int64(res, arg_a - 1) = [ret |-> TRUE, result |-> arg_a]



(***************************************************************************)
(* Claims about the operations machine and the reference-counting machine  *)
(***************************************************************************)
\* C1: every object the library returned, after any sequence of operations
\* on objects it returned, is canonical: no limbs or a non-zero top limb,
\* and no limbs only with is_negative false.
C1_ReturnedCanonical ==
    \A id \in DOMAIN heap : Canonical(Val(id))

\* a shift right of a negative value has returned zero
C1_Witness ==
    /\ last.op = "shift_right"
    /\ last.ret # 0
    /\ Len(heap[last.ret].limbs) = 0
    /\ heap[last.args[1]].is_negative
    /\ Len(heap[last.args[1]].limbs) = 2

\* C6: a live object's ref_count is 1 + retains - releases; the object is
\* freed exactly when its releases are one more than its retains, never
\* earlier; the handle given to db_release is NULL afterwards.
C6_RefCountHonest ==
    /\ \A id \in DOMAIN heap :
           /\ ~heap[id].freed =>
                  heap[id].ref_count = 1 + retains[id] - releases[id]
           /\ heap[id].freed <=> (releases[id] = retains[id] + 1)
    /\ last.op = "release" => handles[last.handle] = 0

\* the second release after one retain has freed an object
C6_Witness ==
    /\ last.op = "release"
    /\ retains[last.args[1]] = 1
    /\ releases[last.args[1]] = 2
    /\ heap[last.args[1]].freed

C8_CopyIndependent ==
    [][/\ last'.op = "copy" =>
              /\ last'.ret \notin DOMAIN heap
              /\ last'.ret # last'.args[1]
              /\ db_equal(ValIn(heap', last'.ret), Val(last'.args[1]))
              /\ heap'[last'.ret].ref_count = 1
              /\ heap'[last'.args[1]] = heap[last'.args[1]]
       /\ last'.op \in {"retain", "release"} =>
              \A id \in DOMAIN heap :
                  id # last'.args[1] => heap'[id] = heap[id]]_vars

\* a retained negative object has been copied
C8_Witness ==
    /\ last.op = "copy"
    /\ heap[last.args[1]].ref_count = 2
    /\ heap[last.args[1]].is_negative
    /\ heap[last.ret].ref_count = 1

=============================================================================
